---- MODULE Spec2Model ----
(***************************************************************************)
(* CellCountApp: the session (CellposeApp, src/UI.py) and its background   *)
(* worker (ProcessingThread, src/worker.py).                               *)
(*                                                                         *)
(* The UI thread runs one handler at a time; the only place a handler      *)
(* gives up the processor while it is still running is the bounded         *)
(* QThread.wait(1000) inside cancel_analysis.  Each worker thread executes *)
(* run() step by step, interleaved with the UI thread and with the other   *)
(* workers.  finished/error are Qt signals emitted in the worker thread    *)
(* and connected to slots of an object living in the UI thread, so they    *)
(* are queued and delivered in order when the UI thread is idle.           *)
(***************************************************************************)
EXTENDS Integers, Sequences, FiniteSets, TLC

\* ---------------------------------------------------------------- bounds
\* number of ProcessingThread objects one session may create
MaxJobs == 2
\* largest label id of a mask returned by the segmentation model
MaxLabel == 4
\* largest number of pixels of a mask
MaxPixels == 5

Jobs == 1..MaxJobs

\* image paths the user can load / output folders the user can choose
Images == {"a.png"}
Folders == {"out"}
\* Python's None
None == "None"

\* masks the model may return in the session specification (a flattened
\* label image): background only, and two labels with a gap in the ids
ModelMasks == {<<0, 0>>, <<0, 1, 3, 3>>}

RECURSIVE SeqsUpTo(_, _)
SeqsUpTo(S, n) ==
    IF n = 0 THEN {<< >>}
    ELSE LET shorter == SeqsUpTo(S, n - 1)
         IN  shorter \cup {Append(s, x) : s \in {t \in shorter : Len(t) = n - 1}, x \in S}

\* every mask within the bounds
AllMasks == SeqsUpTo(0..MaxLabel, MaxPixels)

VARIABLES
    \* --- CellposeApp (UI.py:31-34 and the widgets the handlers touch)
    processing_thread,   \* None (0) or the id of the last worker created
    current_image,
    output_folder,
    is_processing,
    start_button,        \* isEnabled()
    cancel_button,       \* isEnabled()
    result_label,        \* what the result preview shows
    result_info,         \* the inline result text
    dialog,              \* the modal QMessageBox on screen, closed by the
                         \* user before the next click reaches the window
    ui_pc,               \* "idle", or "cancel_wait" inside wait(1000)
    pixel_size_input,    \* the text of the pixel-size field
    uncaught,            \* the exception that left a slot uncaught, or "none"
    \* --- ProcessingThread objects
    nthreads,            \* how many have been created
    threads,             \* id -> fields and position in run()
    \* --- Qt event queue of the UI thread: emitted, undelivered signals
    signals,
    \* --- file system
    fs_files,            \* image files that exist
    fs_dirs,             \* directories that exist
    fs_out,              \* output files that exist
    \* --- history of each job (never read by the program)
    hist,
    \* --- one _make_overlay experiment: the arrays in memory, the arguments
    \* and the results of the calls made so far
    ov

vars == << processing_thread, current_image, output_folder, is_processing,
           start_button, cancel_button, result_label, result_info, dialog,
           ui_pc, pixel_size_input, uncaught,
           nthreads, threads, signals, fs_files, fs_dirs, fs_out, hist, ov >>

uiVars == << processing_thread, current_image, output_folder, is_processing,
             start_button, cancel_button, result_label, result_info, dialog,
             ui_pc, pixel_size_input, uncaught >>

fsVars == << fs_files, fs_dirs, fs_out >>

\* ------------------------------------------------------ metrics (pure)
RECURSIVE SortedSeq(_)
\* the elements of a finite set of integers in ascending order
SortedSeq(S) ==
    IF S = {} THEN << >>
    ELSE LET m == CHOOSE x \in S : \A y \in S : x <= y
         IN  <<m>> \o SortedSeq(S \ {m})

RECURSIVE SumSeq(_)
SumSeq(s) == IF s = << >> THEN 0 ELSE Head(s) + SumSeq(Tail(s))

\* np.unique(mask, return_counts=True): the sorted distinct values and, for
\* each, the number of pixels holding it
NpUnique(mask) ==
    LET labels == SortedSeq({mask[i] : i \in DOMAIN mask})
    IN  [labels |-> labels,
         counts |-> [k \in 1..Len(labels) |->
                        Cardinality({i \in DOMAIN mask : mask[i] = labels[k]})]]

\* the historical bug: the count taken as the largest label id, the mean
\* over all pixels
ExtractMetrics_MaxLabel(mask) ==
    LET vals == {mask[i] : i \in DOMAIN mask}
        mx   == IF vals = {} THEN 0 ELSE CHOOSE x \in vals : \A y \in vals : y <= x
    IN  [cell_count |-> mx,
         mean_area_px |-> IF mx > 0 THEN <<Len(mask), mx>> ELSE <<0, 1>>]

\* a slip: the background entry is dropped from labels but not from counts
ExtractMetrics_CountsNotSliced(mask) ==
    LET u == NpUnique(mask)
        strip == Len(u.labels) > 0 /\ u.labels[1] = 0
        labels == IF strip THEN Tail(u.labels) ELSE u.labels
        counts == u.counts
        cell_count == Len(labels)
    IN  [cell_count |-> cell_count,
         mean_area_px |-> IF cell_count > 0 /\ Len(counts) > 0
                          THEN <<SumSeq(counts), Len(counts)>>
                          ELSE <<0, 1>>]

\* worker.py:69-79.  mean_area_px is the exact quotient num/den, kept as
\* the pair <<num, den>> (counts.mean() is sum(counts)/len(counts)).
ExtractMetrics(mask) ==
    LET u == NpUnique(mask)
        strip == Len(u.labels) > 0 /\ u.labels[1] = 0
        labels == IF strip THEN Tail(u.labels) ELSE u.labels
        counts == IF strip THEN Tail(u.counts) ELSE u.counts
        cell_count == Len(labels)
    IN  [cell_count |-> cell_count,
         mean_area_px |-> IF cell_count > 0 /\ Len(counts) > 0
                          THEN <<SumSeq(counts), Len(counts)>>
                          ELSE <<0, 1>>]

\* ------------------------------------------------------------- initial
\* ProcessingThread.__init__ has not run for any id yet
NoThread ==
    [pc |-> "none", image_path |-> None, output_folder |-> None,
     model |-> None, is_running |-> FALSE,
     mask |-> << >>, cell_count |-> 0, mean_area_px |-> <<0, 1>>]

NoHist ==
    [existed_at_start |-> FALSE,   \* the image existed when start_analysis ran
     stop_before_invoke |-> FALSE, \* stop() ran before cp_model.eval was called
     stop_before_return |-> FALSE, \* stop() ran before cp_model.eval returned
     model_invoked |-> FALSE,
     model_returned |-> FALSE,
     cancel_observed |-> FALSE,    \* run() returned at the cancellation check
     raised |-> "",                \* the exception run() caught, if any
     mask_written |-> FALSE,
     overlay_written |-> FALSE,
     n_finished |-> 0,             \* finished.emit calls
     n_error |-> 0,                \* error.emit calls
     ui_read |-> FALSE]            \* the UI looked at the job's output files

\* a float: finite (num/den * 10^exp), infinite or not a number
Fin(num, den, exp) == [kind |-> "fin", num |-> num, den |-> den, exp |-> exp]
Inf == [kind |-> "inf", num |-> 0, den |-> 1, exp |-> 0]
NaN == [kind |-> "nan", num |-> 0, den |-> 1, exp |-> 0]
\* no float: Python's None where a float may stand
NoFloat == [kind |-> "none", num |-> 0, den |-> 1, exp |-> 0]
\* no float: the exception raised in its place
Raised(exception) == [kind |-> exception, num |-> 0, den |-> 1, exp |-> 0]

\* "Cells: -    Mean area: -"
NoResultText == [shown |-> FALSE, cell_count |-> 0, mean_area_px |-> <<0, 1>>,
                 mean_area_um2 |-> NoFloat]

SessionInit ==
    /\ processing_thread = 0
    /\ current_image = None
    /\ output_folder = None
    /\ is_processing = FALSE
    /\ start_button = TRUE
    /\ cancel_button = FALSE
    /\ result_label = "placeholder"
    /\ result_info = NoResultText
    /\ dialog = "none"
    /\ ui_pc = "idle"
    /\ pixel_size_input = ""
    /\ uncaught = "none"
    /\ nthreads = 0
    /\ threads = [j \in Jobs |-> NoThread]
    /\ signals = << >>
    /\ fs_files = Images
    /\ fs_dirs = Folders
    /\ fs_out = {}
    /\ hist = [j \in Jobs |-> NoHist]

\* no _make_overlay experiment
NoOverlayCall ==
    [heap |-> << >>, img |-> << >>, outlines |-> << >>, img_before |-> << >>,
     results |-> << >>]

Init == SessionInit /\ ov = NoOverlayCall

\* QThread.isRunning(): start() was called and run() has not returned
isRunning(j) == threads[j].pc \notin {"none", "done"}

\* os.path.splitext(os.path.basename(image_path))[0] + suffix, in the folder
OutPath(folder, image, suffix) == << folder, image, suffix >>

\* ------------------------------------------------- ProcessingThread.run
Signal(sig, j, message, t) ==
    [sig |-> sig, job |-> j, message |-> message,
     cell_count |-> t.cell_count, mean_area_px |-> t.mean_area_px,
     mask_path |-> IF sig = "finished"
                   THEN OutPath(t.output_folder, t.image_path, "_masks.png") ELSE << >>,
     overlay_path |-> IF sig = "finished"
                      THEN OutPath(t.output_folder, t.image_path, "_overlay.png") ELSE << >>]

\* run() has returned: its locals are gone
Returned(t) ==
    [t EXCEPT !.pc = "done", !.mask = << >>, !.cell_count = 0,
              !.mean_area_px = <<0, 1>>]

\* a slip: the exception is caught and printed but error is not emitted
Raise_NoEmit(j, message) ==
    /\ threads' = [threads EXCEPT ![j] = Returned(@)]
    /\ signals' = signals
    /\ hist' = [hist EXCEPT ![j].raised = message]

\* worker.py:102-105: any exception raised inside the try block ends run()
\* with error.emit(str(e))
Raise(j, message) ==
    /\ threads' = [threads EXCEPT ![j] = Returned(@)]
    /\ signals' = Append(signals, Signal("error", j, message, NoThread))
    /\ hist' = [hist EXCEPT ![j].raised = message, ![j].n_error = @ + 1]

\* worker.py:35-38: the existence check and os.makedirs(exist_ok=True)
RunBasicChecks(j) ==
    /\ threads[j].pc = "run"
    /\ \/ /\ threads[j].image_path = None \/ threads[j].image_path \notin fs_files
          /\ Raise(j, "Image file not found")
          /\ UNCHANGED fsVars
       \/ /\ threads[j].image_path # None /\ threads[j].image_path \in fs_files
          /\ fs_dirs' = fs_dirs \cup {threads[j].output_folder}
          /\ threads' = [threads EXCEPT ![j].pc = "imread"]
          /\ UNCHANGED << signals, hist, fs_files, fs_out >>
       \/ /\ threads[j].image_path # None /\ threads[j].image_path \in fs_files
          /\ threads[j].output_folder \notin fs_dirs
          /\ Raise(j, "makedirs failed")
          /\ UNCHANGED fsVars
    /\ UNCHANGED << uiVars, ov, nthreads >>

\* worker.py:41-43: io.imread raises, returns None, or returns the image
RunImread(j) ==
    /\ threads[j].pc = "imread"
    /\ \/ /\ threads[j].image_path \in fs_files
          /\ threads' = [threads EXCEPT ![j].pc = "invoke"]
          /\ UNCHANGED << signals, hist >>
       \/ Raise(j, "Failed to read image")
    /\ UNCHANGED << uiVars, ov, nthreads, fsVars >>

\* a second checkpoint, before the model call
RunInvokeModel_Checkpoint(j) ==
    /\ threads[j].pc = "invoke"
    /\ IF ~threads[j].is_running
       THEN /\ threads' = [threads EXCEPT ![j] = Returned(@)]
            /\ hist' = [hist EXCEPT ![j].cancel_observed = TRUE]
            /\ UNCHANGED signals
       ELSE \/ /\ threads' = [threads EXCEPT ![j].pc = "eval"]
               /\ hist' = [hist EXCEPT ![j].model_invoked = TRUE]
               /\ UNCHANGED signals
            \/ Raise(j, "model construction failed")
    /\ UNCHANGED << uiVars, ov, nthreads, fsVars >>

\* worker.py:46-59: the model object is built and cp_model.eval is called
RunInvokeModel(j) ==
    /\ threads[j].pc = "invoke"
    /\ \/ /\ threads' = [threads EXCEPT ![j].pc = "eval"]
          /\ hist' = [hist EXCEPT ![j].model_invoked = TRUE]
          /\ UNCHANGED signals
       \/ Raise(j, "model construction failed")
    /\ UNCHANGED << uiVars, ov, nthreads, fsVars >>

\* worker.py:55-59: cp_model.eval returns the masks, or raises
RunEvalReturn(j, M) ==
    /\ threads[j].pc = "eval"
    /\ \/ \E m \in M :
            /\ threads' = [threads EXCEPT ![j].pc = "checkpoint", ![j].mask = m]
            /\ hist' = [hist EXCEPT ![j].model_returned = TRUE]
            /\ UNCHANGED signals
       \/ Raise(j, "model evaluation failed")
    /\ UNCHANGED << uiVars, ov, nthreads, fsVars >>

\* a slip: the cancellation flag is not looked at
RunCheckpoint_NoCancelCheck(j) ==
    /\ threads[j].pc = "checkpoint"
    /\ LET r == ExtractMetrics(threads[j].mask)
       IN  threads' = [threads EXCEPT ![j].pc = "save_mask",
                                      ![j].cell_count = r.cell_count,
                                      ![j].mean_area_px = r.mean_area_px]
    /\ UNCHANGED << uiVars, ov, nthreads, fsVars, signals, hist >>

\* worker.py:61-79: the cancellation check, then the metrics
RunCheckpoint(j) ==
    /\ threads[j].pc = "checkpoint"
    /\ IF ~threads[j].is_running
       THEN /\ threads' = [threads EXCEPT ![j] = Returned(@)]
            /\ hist' = [hist EXCEPT ![j].cancel_observed = TRUE]
       ELSE /\ LET r == ExtractMetrics(threads[j].mask)
               IN  threads' = [threads EXCEPT ![j].pc = "save_mask",
                                              ![j].cell_count = r.cell_count,
                                              ![j].mean_area_px = r.mean_area_px]
            /\ UNCHANGED hist
    /\ UNCHANGED << uiVars, ov, nthreads, fsVars, signals >>

\* a slip: finished is emitted right after the mask is saved
RunSaveMask_EmitEarly(j) ==
    /\ threads[j].pc = "save_mask"
    /\ \/ /\ fs_out' = fs_out \cup
                 {OutPath(threads[j].output_folder, threads[j].image_path, "_masks.png")}
          /\ threads' = [threads EXCEPT ![j].pc = "emit"]
          /\ hist' = [hist EXCEPT ![j].mask_written = TRUE]
          /\ UNCHANGED signals
       \/ /\ Raise(j, "imsave failed")
          /\ UNCHANGED fs_out
    /\ UNCHANGED << uiVars, ov, nthreads, fs_files, fs_dirs >>

\* worker.py:82-84: the mask file is written
RunSaveMask(j) ==
    /\ threads[j].pc = "save_mask"
    /\ \/ /\ fs_out' = fs_out \cup
                 {OutPath(threads[j].output_folder, threads[j].image_path, "_masks.png")}
          /\ threads' = [threads EXCEPT ![j].pc = "save_overlay"]
          /\ hist' = [hist EXCEPT ![j].mask_written = TRUE]
          /\ UNCHANGED signals
       \/ /\ Raise(j, "imsave failed")
          /\ UNCHANGED fs_out
    /\ UNCHANGED << uiVars, ov, nthreads, fs_files, fs_dirs >>

\* worker.py:87-90: the overlay is built and written
RunSaveOverlay(j) ==
    /\ threads[j].pc = "save_overlay"
    /\ \/ /\ fs_out' = fs_out \cup
                 {OutPath(threads[j].output_folder, threads[j].image_path, "_overlay.png")}
          /\ threads' = [threads EXCEPT ![j].pc = "emit"]
          /\ hist' = [hist EXCEPT ![j].overlay_written = TRUE]
          /\ UNCHANGED signals
       \/ /\ Raise(j, "overlay failed")
          /\ UNCHANGED fs_out
    /\ UNCHANGED << uiVars, ov, nthreads, fs_files, fs_dirs >>

\* worker.py:92-100: the result record is emitted and run() returns
RunEmitFinished(j) ==
    /\ threads[j].pc = "emit"
    /\ signals' = Append(signals, Signal("finished", j, "", threads[j]))
    /\ threads' = [threads EXCEPT ![j] = Returned(@)]
    /\ hist' = [hist EXCEPT ![j].n_finished = @ + 1]
    /\ UNCHANGED << uiVars, ov, nthreads, fsVars >>

\* worker.py:107-109
stop(j) ==
    /\ threads' = [threads EXCEPT ![j].is_running = FALSE]
    /\ hist' = [hist EXCEPT
                  ![j].stop_before_invoke =
                      @ \/ threads[j].pc \in {"run", "imread", "invoke"},
                  ![j].stop_before_return =
                      @ \/ threads[j].pc \in {"run", "imread", "invoke", "eval"}]

\* ---------------------------------------------------------- CellposeApp
\* UI.py:142-155 (upload_image and dropEvent both end here)
load_image(fname) ==
    /\ ui_pc = "idle"
    /\ current_image' = fname
    /\ result_info' = NoResultText
    /\ dialog' = "none"
    /\ UNCHANGED << pixel_size_input, uncaught, ov >>
    /\ UNCHANGED << processing_thread, output_folder, is_processing, start_button,
                    cancel_button, result_label, ui_pc,
                    nthreads, threads, signals, fsVars, hist >>

\* UI.py:165-173: the chooser returns an existing directory, or nothing
select_output_folder(folder) ==
    /\ ui_pc = "idle"
    /\ folder \in fs_dirs
    /\ output_folder' = folder
    /\ dialog' = "none"
    /\ UNCHANGED << pixel_size_input, uncaught, ov >>
    /\ UNCHANGED << processing_thread, current_image, is_processing, start_button,
                    cancel_button, result_label, result_info, ui_pc,
                    nthreads, threads, signals, fsVars, hist >>

\* a slip: the image path is not checked for existence
StartCheck_NoExistsCheck ==
    IF is_processing THEN "Processing already running!"
    ELSE IF current_image = None THEN "Please upload an image first!"
    ELSE IF output_folder = None \/ output_folder \notin fs_dirs
         THEN "Please choose an output folder first!"
    ELSE "ok"

\* a slip: the output folder is not checked to be a directory
StartCheck_NoIsdirCheck ==
    IF is_processing THEN "Processing already running!"
    ELSE IF current_image = None THEN "Please upload an image first!"
    ELSE IF current_image \notin fs_files THEN "File not found"
    ELSE IF output_folder = None THEN "Please choose an output folder first!"
    ELSE "ok"

\* a slip: a start is not rejected while a job is being processed
StartCheck_NoProcessingCheck ==
    IF current_image = None THEN "Please upload an image first!"
    ELSE IF current_image \notin fs_files THEN "File not found"
    ELSE IF output_folder = None \/ output_folder \notin fs_dirs
         THEN "Please choose an output folder first!"
    ELSE "ok"

\* UI.py:176-189: the message box start_analysis returns with, or "ok"
StartCheck ==
    IF is_processing THEN "Processing already running!"
    ELSE IF current_image = None THEN "Please upload an image first!"
    ELSE IF current_image \notin fs_files THEN "File not found"
    ELSE IF output_folder = None \/ output_folder \notin fs_dirs
         THEN "Please choose an output folder first!"
    ELSE "ok"

\* UI.py:175-208
start_analysis ==
    /\ ui_pc = "idle"
    /\ \/ /\ StartCheck # "ok"
          /\ dialog' = StartCheck
          /\ UNCHANGED << pixel_size_input, uncaught, ov >>
          /\ UNCHANGED << processing_thread, current_image, output_folder,
                          is_processing, start_button, cancel_button, result_label,
                          result_info, ui_pc, nthreads, threads, signals, fsVars, hist >>
       \/ /\ StartCheck = "ok"
          /\ nthreads < MaxJobs
          /\ is_processing' = TRUE
          /\ start_button' = FALSE
          /\ cancel_button' = TRUE
          /\ result_label' = "Processing..."
          /\ nthreads' = nthreads + 1
          /\ processing_thread' = nthreads + 1
          /\ threads' = [threads EXCEPT ![nthreads + 1] =
                 [pc |-> "run", image_path |-> current_image,
                  output_folder |-> output_folder, model |-> "cyto",
                  is_running |-> TRUE,
                  mask |-> << >>, cell_count |-> 0, mean_area_px |-> <<0, 1>>]]
          /\ hist' = [hist EXCEPT ![nthreads + 1].existed_at_start =
                                      current_image \in fs_files]
          /\ dialog' = "none"
          /\ UNCHANGED << pixel_size_input, uncaught, ov >>
          /\ UNCHANGED << current_image, output_folder, result_info, ui_pc,
                          signals, fsVars >>

\* what the user may type into the pixel-size field
PixelSizeTexts ==
    {"", "  ", "abc", "0", "-2", "2", " 2 ", "0.5", "nan", "inf", "1e200"}

\* str.strip()
Strip(text) ==
    IF text = "  " THEN "" ELSE IF text = " 2 " THEN "2" ELSE text

\* the largest power of ten a Python float holds (sys.float_info.max_10_exp)
FloatMaxExp10 == 308

\* float(text): the value, or ValueError
ParseFloat(text) ==
    IF text = "0" THEN Fin(0, 1, 0)
    ELSE IF text = "-2" THEN Fin(-2, 1, 0)
    ELSE IF text = "2" THEN Fin(2, 1, 0)
    ELSE IF text = "0.5" THEN Fin(1, 2, 0)
    ELSE IF text = "1e200" THEN Fin(1, 1, 200)
    ELSE IF text = "nan" THEN NaN
    ELSE IF text = "inf" THEN Inf
    ELSE Raised("ValueError")

\* px_size > 0
IsPositive(x) == (x.kind = "fin" /\ x.num > 0) \/ x.kind = "inf"

\* px_size ** 2: float ** raises OverflowError when the result is out of
\* range
Square(x) ==
    IF x.kind = "inf" THEN Inf
    ELSE IF 2 * x.exp > FloatMaxExp10 THEN Raised("OverflowError")
    ELSE Fin(x.num * x.num, x.den * x.den, 2 * x.exp)

\* mean_area_px * y
TimesMean(mean_area_px, y) ==
    IF y.kind = "inf" THEN (IF mean_area_px[1] = 0 THEN NaN ELSE Inf)
    ELSE Fin(mean_area_px[1] * y.num, mean_area_px[2] * y.den, y.exp)

\* UI.py:238-246: mean_area_um2, None (NoFloat), or the exception that
\* leaves the try block uncaught (only ValueError is caught)
PhysicalArea(text, mean_area_px) ==
    LET pixel_size_text == Strip(text)
        px_size == ParseFloat(pixel_size_text)
    IN  IF pixel_size_text = "" THEN NoFloat
        ELSE IF px_size.kind = "ValueError" THEN NoFloat
        ELSE IF ~IsPositive(px_size) THEN NoFloat
        ELSE IF Square(px_size).kind = "OverflowError" THEN Square(px_size)
        ELSE TimesMean(mean_area_px, Square(px_size))

\* the user edits the pixel-size field (UI.py:84)
edit_pixel_size(text) ==
    /\ ui_pc = "idle"
    /\ pixel_size_input' = text
    /\ dialog' = "none"
    /\ UNCHANGED << processing_thread, current_image, output_folder, is_processing,
                    start_button, cancel_button, result_label, result_info, ui_pc,
                    uncaught, nthreads, threads, signals, fsVars, hist, ov >>

\* UI.py:210-266, run when the queued finished signal is delivered.  An
\* exception raised at UI.py:244 leaves the slot: the statements after it
\* (the result text, the removal of the mask file) are not executed.
on_processing_finished ==
    /\ ui_pc = "idle"
    /\ signals # << >>
    /\ Head(signals).sig = "finished"
    /\ LET results == Head(signals)
           show_path == IF results.overlay_path # << >> THEN results.overlay_path
                        ELSE results.mask_path
           mean_area_um2 == PhysicalArea(pixel_size_input, results.mean_area_px)
       IN  /\ is_processing' = FALSE
           /\ start_button' = TRUE
           /\ cancel_button' = FALSE
           /\ result_label' = IF show_path # << >> /\ show_path \in fs_out
                              THEN "pixmap" ELSE "No result image found."
           /\ hist' = [hist EXCEPT ![results.job].ui_read = TRUE]
           /\ IF mean_area_um2.kind = "OverflowError"
              THEN /\ uncaught' = mean_area_um2.kind
                   /\ UNCHANGED << result_info, fs_out >>
              ELSE /\ result_info' = [shown |-> TRUE,
                                      cell_count |-> results.cell_count,
                                      mean_area_px |-> results.mean_area_px,
                                      mean_area_um2 |-> mean_area_um2]
                   \* os.remove(mask_path) succeeds, or fails and is only logged
                   /\ \/ fs_out' = fs_out \ {results.mask_path}
                      \/ /\ results.mask_path \in fs_out
                         /\ fs_out' = fs_out
                   /\ UNCHANGED uncaught
    /\ signals' = Tail(signals)
    /\ UNCHANGED << pixel_size_input, ov >>
    /\ UNCHANGED << processing_thread, current_image, output_folder, dialog, ui_pc,
                    nthreads, threads, fs_files, fs_dirs >>

\* a slip: the error handler leaves the buttons as they are
on_processing_error_KeepsButtons ==
    /\ ui_pc = "idle"
    /\ signals # << >>
    /\ Head(signals).sig = "error"
    /\ is_processing' = FALSE
    /\ dialog' = "Processing failed"
    /\ signals' = Tail(signals)
    /\ UNCHANGED << pixel_size_input, uncaught, ov >>
    /\ UNCHANGED << processing_thread, current_image, output_folder, result_label,
                    start_button, cancel_button,
                    result_info, ui_pc, nthreads, threads, fsVars, hist >>

\* UI.py:268-272, run when the queued error signal is delivered
on_processing_error ==
    /\ ui_pc = "idle"
    /\ signals # << >>
    /\ Head(signals).sig = "error"
    /\ is_processing' = FALSE
    /\ start_button' = TRUE
    /\ cancel_button' = FALSE
    /\ dialog' = "Processing failed"
    /\ signals' = Tail(signals)
    /\ UNCHANGED << pixel_size_input, uncaught, ov >>
    /\ UNCHANGED << processing_thread, current_image, output_folder, result_label,
                    result_info, ui_pc, nthreads, threads, fsVars, hist >>

\* a slip: cancel_analysis does not clear is_processing
CancelReset_KeepsProcessing ==
    /\ is_processing' = is_processing
    /\ result_label' = "placeholder"
    /\ result_info' = NoResultText
    /\ start_button' = TRUE
    /\ cancel_button' = FALSE

\* UI.py:278-282
CancelReset ==
    /\ is_processing' = FALSE
    /\ result_label' = "placeholder"
    /\ result_info' = NoResultText
    /\ start_button' = TRUE
    /\ cancel_button' = FALSE

\* UI.py:274-282, up to the point where the UI thread blocks in wait(1000);
\* the whole handler when there is no running thread to wait for.  The
\* cancel button is the only caller and is enabled only between a start and
\* the end of its job.
cancel_analysis ==
    /\ ui_pc = "idle"
    /\ cancel_button
    /\ IF processing_thread # 0 /\ isRunning(processing_thread)
       THEN /\ stop(processing_thread)
            /\ ui_pc' = "cancel_wait"
            /\ UNCHANGED << is_processing, result_label, result_info,
                            start_button, cancel_button >>
       ELSE /\ CancelReset
            /\ UNCHANGED << ui_pc, threads, hist >>
    /\ dialog' = "none"
    /\ UNCHANGED << pixel_size_input, uncaught, ov >>
    /\ UNCHANGED << processing_thread, current_image, output_folder,
                    nthreads, signals, fsVars >>

\* UI.py:277-282: wait(1000) returns, because the thread has finished or
\* because the second has passed, and the handler runs to its end
cancel_analysis_resume ==
    /\ ui_pc = "cancel_wait"
    /\ ui_pc' = "idle"
    /\ CancelReset
    /\ UNCHANGED << pixel_size_input, uncaught, ov >>
    /\ UNCHANGED << processing_thread, current_image, output_folder, dialog,
                    nthreads, threads, signals, fsVars, hist >>

\* ---------------------------------------------------------- environment
\* an image file is deleted or moved away by another program
RemoveFile(f) ==
    /\ f \in fs_files
    /\ fs_files' = fs_files \ {f}
    /\ UNCHANGED << uiVars, ov, nthreads, threads, signals, fs_dirs, fs_out, hist >>

\* the output directory is deleted by another program
RemoveDir(d) ==
    /\ d \in fs_dirs
    /\ fs_dirs' = fs_dirs \ {d}
    /\ UNCHANGED << uiVars, ov, nthreads, threads, signals, fs_files, fs_out, hist >>

\* --------------------------------------------------------- specification
WorkerStep(j, M) ==
    \/ RunBasicChecks(j)
    \/ RunImread(j)
    \/ RunInvokeModel(j)
    \/ RunEvalReturn(j, M)
    \/ RunCheckpoint(j)
    \/ RunSaveMask(j)
    \/ RunSaveOverlay(j)
    \/ RunEmitFinished(j)

Next ==
    \/ \E f \in Images : load_image(f)
    \/ \E d \in Folders : select_output_folder(d)
    \/ start_analysis
    \/ cancel_analysis
    \/ cancel_analysis_resume
    \/ on_processing_finished
    \/ on_processing_error
    \/ \E j \in Jobs : WorkerStep(j, ModelMasks)
    \/ \E f \in Images : RemoveFile(f)
    \/ \E d \in Folders : RemoveDir(d)

Spec == Init /\ [][Next]_vars

\* The session under the scheduling the program runs with: a started
\* worker thread keeps running until run() returns (every external call
\* returns or raises), the event loop delivers every queued notification,
\* and wait(1000) returns.  Nothing is assumed about what the user or other
\* programs do.
Fairness ==
    /\ \A j \in Jobs : WF_vars(WorkerStep(j, ModelMasks))
    /\ WF_vars(on_processing_finished)
    /\ WF_vars(on_processing_error)
    /\ WF_vars(cancel_analysis_resume)

SpecLive == Init /\ [][Next]_vars /\ Fairness

\* The metrics specification: the first job of a session (no cancellation,
\* no interference from other programs), the model returning any mask
\* within the bounds.
MetricsNext ==
    \/ \E f \in Images : load_image(f)
    \/ \E d \in Folders : select_output_folder(d)
    \/ (nthreads = 0 /\ start_analysis)
    \/ on_processing_finished
    \/ on_processing_error
    \/ \E j \in Jobs : WorkerStep(j, AllMasks)

SpecMetrics == Init /\ [][MetricsNext]_vars

\* The pixel-size specification: the first job of a session, with the user
\* editing the pixel-size field at any time.
ScaleNext ==
    \/ \E f \in Images : load_image(f)
    \/ \E d \in Folders : select_output_folder(d)
    \/ \E text \in PixelSizeTexts : edit_pixel_size(text)
    \/ (nthreads = 0 /\ start_analysis)
    \/ on_processing_finished
    \/ on_processing_error
    \/ \E j \in Jobs : WorkerStep(j, ModelMasks)

SpecScale == Init /\ [][ScaleNext]_vars

\* ------------------------------------------------ _make_overlay (pure)
\* A numpy array is a view of a buffer: buf names the buffer in the heap,
\* chans is the number of values the buffer holds per pixel (1 for a 2-D
\* image) and take the number of leading channels the view shows
\* (rgb[..., :3] shows 3 of 4).  A buffer is the flat sequence of its values.
Array(buf, dtype, ndim, chans, take) ==
    [buf |-> buf, dtype |-> dtype, ndim |-> ndim, chans |-> chans, take |-> take]

NumPixels(heap, a) == Len(heap[a.buf]) \div a.chans

\* the pixels a view shows, each the tuple of its channels
Pixels(heap, a) ==
    [p \in 1..NumPixels(heap, a) |->
        [c \in 1..a.take |-> heap[a.buf][(p - 1) * a.chans + c]]]

\* a new buffer holding data; the array over it has the given shape
Alloc(heap, data, dtype, ndim, chans) ==
    [heap |-> Append(heap, data),
     arr  |-> Array(Len(heap) + 1, dtype, ndim, chans, chans)]

SeqMin(s) == CHOOSE x \in {s[i] : i \in DOMAIN s} : \A i \in DOMAIN s : x <= s[i]
SeqMax(s) == CHOOSE x \in {s[i] : i \in DOMAIN s} : \A i \in DOMAIN s : s[i] <= x

\* a slip: the values are divided by the maximum, the minimum is not
\* subtracted
ToUint8_ScaleByMax(heap, a) ==
    IF a.dtype = "uint8" THEN [heap |-> heap, arr |-> a]
    ELSE LET data == heap[a.buf]
             amax == SeqMax(data)
         IN  IF amax = 0
             THEN Alloc(heap, [i \in DOMAIN data |-> 0], "uint8", a.ndim, a.chans)
             ELSE Alloc(heap, [i \in DOMAIN data |-> (255 * data[i]) \div amax],
                        "uint8", a.ndim, a.chans)

\* worker.py:136-146.  np.asarray does not copy and a uint8 array is
\* returned as it is; the scaled values are truncated by astype(np.uint8).
ToUint8(heap, a) ==
    IF a.dtype = "uint8" THEN [heap |-> heap, arr |-> a]
    ELSE LET data == heap[a.buf]
             amin == SeqMin(data)
             amax == SeqMax(data)
         IN  IF amax <= amin
             THEN Alloc(heap, [i \in DOMAIN data |-> 0], "uint8", a.ndim, a.chans)
             ELSE Alloc(heap,
                        [i \in DOMAIN data |->
                            (255 * (data[i] - amin)) \div (amax - amin)],
                        "uint8", a.ndim, a.chans)

\* np.stack([arr, arr, arr], axis=-1) of a 2-D array: a new 3-channel array
Stack3(heap, a) ==
    LET data == heap[a.buf]
    IN  Alloc(heap, [i \in 1..(3 * Len(data)) |-> data[((i - 1) \div 3) + 1]],
              a.dtype, 3, 3)

\* rgb.copy(): a new contiguous array holding what the view shows
Copy(heap, a) ==
    LET n == NumPixels(heap, a)
    IN  Alloc(heap,
              [i \in 1..(n * a.take) |->
                  heap[a.buf][((i - 1) \div a.take) * a.chans + ((i - 1) % a.take) + 1]],
              a.dtype, a.ndim, a.take)

\* overlay[outlines_bool] = (255, 0, 0): written into the buffer of the view
Paint(heap, a, outlines_bool) ==
    [heap EXCEPT ![a.buf] =
        [i \in DOMAIN @ |->
            LET p == ((i - 1) \div a.chans) + 1
                c == ((i - 1) % a.chans) + 1
            IN  IF outlines_bool[p] /\ c <= a.take
                THEN (IF c = 1 THEN 255 ELSE 0)
                ELSE @[i]]]

\* a slip: the boundaries are painted on rgb itself, not on a copy
MakeOverlay_NoCopy(heap, img, outlines_bool) ==
    LET t   == ToUint8(heap, img)
        rgb == IF img.ndim = 2 THEN Stack3(t.heap, t.arr)
               ELSE [heap |-> t.heap,
                     arr  |-> IF t.arr.take = 4 THEN [t.arr EXCEPT !.take = 3]
                              ELSE t.arr]
    IN  [heap |-> Paint(rgb.heap, rgb.arr, outlines_bool), arr |-> rgb.arr]

\* worker.py:112-134
MakeOverlay(heap, img, outlines_bool) ==
    LET t   == ToUint8(heap, img)
        rgb == IF img.ndim = 2 THEN Stack3(t.heap, t.arr)
               ELSE [heap |-> t.heap,
                     arr  |-> IF t.arr.take = 4 THEN [t.arr EXCEPT !.take = 3]
                              ELSE t.arr]
        overlay == Copy(rgb.heap, rgb.arr)
    IN  [heap |-> Paint(overlay.heap, overlay.arr, outlines_bool),
         arr  |-> overlay.arr]

\* largest number of pixels of a source image
MaxImagePixels == 2

\* the values a pixel of each type may hold
Dtypes == {"uint8", "uint16", "float32"}
PixelValues(dtype) ==
    IF dtype = "uint8" THEN {0, 100}
    ELSE IF dtype = "uint16" THEN {0, 1000}
    ELSE {-5, 100}

\* image shapes: 2-D, 3-channel, 4-channel
Shapes == {<<2, 1>>, <<3, 3>>, <<3, 4>>}

\* every sequence over S of exactly n elements
SeqsOfLen(S, n) == [1..n -> S]

\* the experiment: a source image and a boundary map of the same extent
OverlayCall(dtype, shape, data, outl) ==
    [heap |-> <<data>>,
     img |-> Array(1, dtype, shape[1], shape[2], shape[2]),
     outlines |-> outl,
     img_before |-> data,
     results |-> << >>]

\* worker.py:88: one call of _make_overlay(img, outlines); the pixels of the
\* overlay it returns are recorded
call_make_overlay ==
    /\ ov.heap # << >>
    /\ Len(ov.results) < 2
    /\ LET r == MakeOverlay(ov.heap, ov.img, ov.outlines)
       IN  ov' = [ov EXCEPT !.heap = r.heap,
                            !.results = Append(@, Pixels(r.heap, r.arr))]
    /\ UNCHANGED << uiVars, nthreads, threads, signals, fsVars, hist >>

OverlayInit ==
    /\ SessionInit
    /\ \E dtype \in Dtypes, shape \in Shapes, n \in 1..MaxImagePixels :
          \E data \in SeqsOfLen(PixelValues(dtype), n * shape[2]),
             outl \in SeqsOfLen(BOOLEAN, n) :
                ov = OverlayCall(dtype, shape, data, outl)

SpecOverlay == OverlayInit /\ [][call_make_overlay]_vars

\* ------------------------------------------------------------ properties
Created == 1..nthreads

\* the job holds the metrics it is about to report (worker.py:75-100)
HasMetrics(j) == threads[j].pc \in {"save_mask", "save_overlay", "emit"}

MaskValues(mask) == {mask[i] : i \in DOMAIN mask}
DistinctPositive(mask) == {v \in MaskValues(mask) : v > 0}
PositivePixels(mask) == {i \in DOMAIN mask : mask[i] > 0}
MaxValue(mask) ==
    IF mask = << >> THEN 0
    ELSE CHOOSE x \in MaskValues(mask) : \A y \in MaskValues(mask) : y <= x

\* C1: at most one ProcessingThread is executing run() in any reachable
\* state.  The code violates it: cancel_analysis gives up after wait(1000)
\* and clears is_processing while the cancelled worker is still running, and
\* the next start_analysis starts a second worker.
C1_AtMostOneWorkerRunning ==
    Cardinality({j \in Jobs : isRunning(j)}) <= 1

\* C2: a job whose stop() was called before cp_model.eval returned never
\* emits finished and never writes the mask file or the overlay file.
C2_StopBeforeModelReturnsNoResult ==
    \A j \in Jobs :
        hist[j].stop_before_return =>
            /\ hist[j].n_finished = 0
            /\ ~hist[j].mask_written
            /\ ~hist[j].overlay_written
            /\ \A k \in DOMAIN signals :
                   ~(signals[k].job = j /\ signals[k].sig = "finished")

\* C2 witness: a job stopped while the model was running has run to its end
C2_Witness ==
    \E j \in Jobs :
        /\ hist[j].stop_before_return
        /\ ~hist[j].stop_before_invoke
        /\ hist[j].model_returned
        /\ threads[j].pc = "done"

\* C3 as claimed: a stop() before the first checkpoint (after the image is
\* read, before the model is invoked) means the model is never invoked.
C3_StopBeforeModelSkipsModel ==
    \A j \in Jobs : hist[j].stop_before_invoke => ~hist[j].model_invoked

\* C3 amended: the flag is checked at one checkpoint only, after the model
\* has returned and before any file is written.  Cancellation is observed
\* only there, and a job stopped before the model call still invokes the
\* model and then ends at that checkpoint with no file and no notification.
C3_SingleCheckpointAfterModel ==
    \A j \in Jobs :
        /\ hist[j].cancel_observed =>
              /\ hist[j].model_invoked /\ hist[j].model_returned
              /\ ~hist[j].mask_written /\ ~hist[j].overlay_written
              /\ hist[j].n_finished = 0 /\ hist[j].n_error = 0
        /\ (hist[j].stop_before_invoke /\ threads[j].pc = "done"
                /\ hist[j].raised = "") =>
              (hist[j].model_invoked /\ hist[j].cancel_observed)

\* C3 witness: a job stopped before the model call has invoked the model
\* and ended at the checkpoint after it
C3_Witness ==
    \E j \in Jobs :
        /\ hist[j].stop_before_invoke
        /\ hist[j].model_invoked
        /\ hist[j].cancel_observed
        /\ threads[j].pc = "done"

\* C4: the cell_count the worker reports is the number of distinct positive
\* values of the mask (with or without a background pixel, with gaps in the
\* ids), and equals the largest label only when the two coincide.
C4_CellCountIsDistinctPositive ==
    \A j \in Jobs :
        HasMetrics(j) =>
            /\ threads[j].cell_count =
                   Cardinality(DistinctPositive(threads[j].mask))
            /\ (threads[j].cell_count = MaxValue(threads[j].mask)) <=>
                   (Cardinality(DistinctPositive(threads[j].mask)) =
                        MaxValue(threads[j].mask))

\* C4 witness: a mask with no background pixel and a gap in its ids is
\* about to be reported with a count different from its largest label
C4_Witness ==
    \E j \in Jobs :
        /\ threads[j].pc = "emit"
        /\ 0 \notin MaskValues(threads[j].mask)
        /\ threads[j].cell_count = 2
        /\ MaxValue(threads[j].mask) = 3

\* C5: mean_area_px times cell_count is the number of pixels with a positive
\* label, and mean_area_px is 0 (nothing divided) when there is no positive
\* label.  mean_area_px is the quotient num/den, so the product is compared
\* after multiplying both sides by den.
C5_MeanAreaTimesCountIsLabelledPixels ==
    \A j \in Jobs :
        HasMetrics(j) =>
            LET mean == threads[j].mean_area_px
                mask == threads[j].mask
            IN  /\ mean[2] > 0
                /\ mean[1] * threads[j].cell_count =
                       Cardinality(PositivePixels(mask)) * mean[2]
                /\ DistinctPositive(mask) = {} => mean = <<0, 1>>

\* C5 witness: a mask with background and two labels of 1 and 2 pixels is
\* about to be reported with mean area 3/2
C5_Witness ==
    \E j \in Jobs :
        /\ threads[j].pc = "emit"
        /\ 0 \in MaskValues(threads[j].mask)
        /\ threads[j].cell_count = 2
        /\ threads[j].mean_area_px = <<3, 2>>

\* C6: a run() emits at most one notification: finished exactly once iff no
\* step raised and cancellation was not observed at the checkpoint, error
\* exactly once and no finished if a step raised.
C6_AtMostOneNotification ==
    \A j \in Jobs :
        /\ hist[j].n_finished + hist[j].n_error <= 1
        /\ Cardinality({k \in DOMAIN signals : signals[k].job = j}) <= 1
        /\ hist[j].raised # "" => (hist[j].n_error = 1 /\ hist[j].n_finished = 0)
        /\ threads[j].pc = "done" =>
              /\ (hist[j].n_finished = 1) <=>
                     (hist[j].raised = "" /\ ~hist[j].cancel_observed)
              /\ (hist[j].n_error = 1) <=> (hist[j].raised # "")

\* C6 witness: one job has emitted finished, another has failed writing its
\* overlay after its mask was written and has emitted error
C6_Witness ==
    \E j \in Jobs, k \in Jobs :
        /\ hist[j].n_finished = 1
        /\ hist[k].raised = "overlay failed"
        /\ hist[k].mask_written
        /\ hist[k].n_error = 1

\* C7: when a job emits finished both of its files have been written, and
\* the UI looks at a job's files only in the handler of its finished signal.
C7_FinishedAfterWrites ==
    /\ \A j \in Jobs :
          /\ hist[j].n_finished > 0 =>
                 (hist[j].mask_written /\ hist[j].overlay_written)
          /\ hist[j].ui_read => hist[j].n_finished > 0
    /\ \A k \in DOMAIN signals :
          signals[k].sig = "finished" =>
              /\ hist[signals[k].job].mask_written
              /\ hist[signals[k].job].overlay_written
              /\ ~hist[signals[k].job].ui_read

\* C7 witness: the UI has shown the overlay of a finished job
C7_Witness ==
    \E j \in Jobs : hist[j].ui_read /\ result_label = "pixmap"

\* C8 as claimed: a missing image is never reported through the worker's
\* error notification.
C8_NoAsyncNotFound ==
    \A j \in Jobs : hist[j].raised # "Image file not found"

\* C8 amended: an image that is missing when start_analysis runs is reported
\* by start_analysis itself and no worker is created for it; the worker
\* reports "Image file not found" through error only for an image that
\* existed at start_analysis and is gone at the worker's own check.
C8_MissingAtStartIsSynchronous ==
    /\ \A j \in Created :
          /\ hist[j].existed_at_start
          /\ hist[j].raised = "Image file not found" =>
                 threads[j].image_path \notin fs_files
    /\ dialog = "File not found" =>
          (current_image \notin fs_files /\ ~is_processing)

\* C8 witness: a worker has reported the missing image through error
C8_Witness ==
    \E j \in Jobs :
        /\ hist[j].raised = "Image file not found"
        /\ hist[j].existed_at_start
        /\ hist[j].n_error = 1

\* the inputs start_analysis rejects (UI.py:180-189)
InvalidStartInputs ==
    \/ current_image = None
    \/ current_image \notin fs_files
    \/ output_folder = None
    \/ output_folder \notin fs_dirs

\* C9: start_analysis with no image, a missing image, no output folder or
\* an output folder that is not a directory creates no thread and leaves
\* the session as it was: is_processing false, processing_thread as before,
\* start enabled, cancel disabled.
C9_RejectedStartChangesNothing ==
    [][(start_analysis /\ InvalidStartInputs) =>
          /\ nthreads' = nthreads
          /\ threads' = threads
          /\ signals' = signals
          /\ processing_thread' = processing_thread
          /\ is_processing' = is_processing
          /\ start_button' = start_button
          /\ cancel_button' = cancel_button
          /\ result_label' = result_label
          /\ ~is_processing =>
                (~is_processing' /\ start_button' /\ ~cancel_button')]_vars

\* C9 witness: start_analysis has been rejected for an output folder that is
\* no longer a directory, after an earlier job
C9_Witness ==
    /\ dialog = "Please choose an output folder first!"
    /\ output_folder # None
    /\ output_folder \notin fs_dirs
    /\ processing_thread # 0
    /\ ~is_processing

\* C10: no UI handler waits for the worker thread.  The code violates it:
\* cancel_analysis blocks the UI thread in processing_thread.wait(1000).
C10_UINeverWaitsForWorker ==
    ui_pc # "cancel_wait"

\* every value of the source image is the same (its minimum is its maximum)
FlatImage == \A i, k \in DOMAIN ov.img_before : ov.img_before[i] = ov.img_before[k]

\* the overlay is the painted zero image
ZeroBasePainted(result) ==
    \A p \in DOMAIN result :
        result[p] = IF ov.outlines[p] THEN <<255, 0, 0>> ELSE <<0, 0, 0>>

\* C11 as claimed: for a flat source image of any pixel type, 8-bit unsigned
\* included, the overlay is (0, 0, 0) off the boundary and (255, 0, 0) on it.
C11_FlatImageZeroBase ==
    \A k \in DOMAIN ov.results : FlatImage => ZeroBasePainted(ov.results[k])

\* C11 amended: that holds for a flat image of any type other than 8-bit
\* unsigned; a flat 8-bit image of value v is not rescaled, its overlay is
\* (v, v, v) off the boundary and (255, 0, 0) on it.
C11_FlatImageBase ==
    \A k \in DOMAIN ov.results :
        FlatImage =>
            IF ov.img.dtype = "uint8"
            THEN \A p \in DOMAIN ov.results[k] :
                    ov.results[k][p] =
                        IF ov.outlines[p] THEN <<255, 0, 0>>
                        ELSE <<ov.img_before[1], ov.img_before[1], ov.img_before[1]>>
            ELSE ZeroBasePainted(ov.results[k])

\* C11 witness: the overlay of a flat, non-zero 16-bit image with one
\* boundary pixel and one pixel off the boundary has been made
C11_Witness ==
    /\ Len(ov.results) > 0
    /\ FlatImage
    /\ ov.img.dtype = "uint16"
    /\ ov.img_before[1] # 0
    /\ \E p, q \in DOMAIN ov.outlines : ov.outlines[p] /\ ~ov.outlines[q]

\* C12: _make_overlay leaves the source image as it was, for every shape and
\* pixel type, and a second call with the same arguments returns an equal
\* overlay.
C12_SourceImageUnchanged ==
    /\ Len(ov.results) > 0 =>
          /\ ov.heap[ov.img.buf] = ov.img_before
          /\ Len(ov.heap) > 1
    /\ Len(ov.results) = 2 => ov.results[1] = ov.results[2]

\* C12 witness: _make_overlay was called twice on a 4-channel 8-bit image
\* with a boundary pixel whose source value is not the highlight colour
C12_Witness ==
    /\ Len(ov.results) = 2
    /\ ov.img.dtype = "uint8"
    /\ ov.img.chans = 4
    /\ \E p \in DOMAIN ov.outlines :
          ov.outlines[p] /\ Pixels(ov.heap, ov.img)[p] # <<255, 0, 0, 0>>

\* the scale the claim calls valid: the stripped text parses to a finite
\* number greater than zero
ValidScale(text) ==
    LET x == ParseFloat(Strip(text)) IN x.kind = "fin" /\ x.num > 0

\* the text parses to an infinite scale (float("inf") is greater than zero)
InfiniteScale(text) == ParseFloat(Strip(text)).kind = "inf"

\* C13: in on_processing_finished, an empty, unparseable, zero or negative
\* pixel size gives no physical area, no exception and a result text in
\* pixel units only; a positive scale s gives mean_area_px * s * s.  The
\* code violates the second half: for a scale whose square overflows
\* ("1e200") px_size ** 2 raises OverflowError, which leaves the handler.
C13_PixelSizeHandling ==
    [][on_processing_finished =>
          LET text == pixel_size_input
              mean == Head(signals).mean_area_px
              s    == ParseFloat(Strip(text))
              um2  == result_info'.mean_area_um2
          IN  /\ uncaught' = uncaught
              /\ result_info'.shown
              /\ result_info'.mean_area_px = mean
              /\ IF ValidScale(text)
                 THEN /\ um2.kind = "fin"
                      /\ um2.exp = 2 * s.exp
                      /\ um2.num * (mean[2] * s.den * s.den) =
                             (mean[1] * s.num * s.num) * um2.den
                 ELSE IF InfiniteScale(text)
                 THEN um2.kind \in {"inf", "nan"}
                 ELSE um2 = NoFloat]_vars

\* C14: start_analysis invoked while is_processing is true is rejected and
\* changes nothing but the message box: no thread is created,
\* processing_thread refers to the same worker, every worker's fields
\* (image path, output folder, model, cancellation flag, position), the
\* queued notifications, the files and the record of each job are as they
\* were, is_processing stays true and both buttons keep their state.  The
\* active job therefore continues from the very state it was in.
C14_StartWhileProcessingChangesNothing ==
    [][(start_analysis /\ is_processing) =>
          /\ dialog' = "Processing already running!"
          /\ is_processing'
          /\ nthreads' = nthreads
          /\ processing_thread' = processing_thread
          /\ threads' = threads
          /\ signals' = signals
          /\ hist' = hist
          /\ start_button' = start_button
          /\ cancel_button' = cancel_button
          /\ result_label' = result_label
          /\ result_info' = result_info
          /\ current_image' = current_image
          /\ output_folder' = output_folder
          /\ fs_files' = fs_files
          /\ fs_dirs' = fs_dirs
          /\ fs_out' = fs_out]_vars

\* C14 witness: a start has been rejected while the worker of the active
\* job was running, with inputs that would otherwise have been accepted
C14_Witness ==
    /\ dialog = "Processing already running!"
    /\ is_processing
    /\ nthreads < MaxJobs
    /\ isRunning(processing_thread)
    /\ ~InvalidStartInputs

\* the job whose finished notification is the next to be handled
NotifyingJob == Head(signals).job

\* cancel_analysis has run for job j: it is the only caller of stop()
\* (UI.py:276), and a notification is handled only once it has returned
Cancelled(j) == ~threads[j].is_running

\* C15: once cancel_analysis has returned for a job, the UI never handles a
\* finished notification of that job, so the preview and result_info stay
\* reset until a later job completes and a newer job's is_processing and
\* buttons are not changed by it.  The code violates it: a worker that has
\* passed its only cancellation check when stop() is called writes its files
\* and emits finished, and on_processing_finished handles the notification
\* without asking which job sent it.
C15_NoFinishedFromCancelledJob ==
    [][on_processing_finished =>
          /\ ~Cancelled(NotifyingJob)
          /\ (NotifyingJob # processing_thread /\ isRunning(processing_thread)) =>
                /\ is_processing' = is_processing
                /\ start_button' = start_button
                /\ cancel_button' = cancel_button]_vars

\* C16: whenever is_processing is true it eventually becomes false again,
\* for every interleaving of start, cancel and worker steps, given that the
\* worker's external calls return or raise, that notifications are
\* delivered and that wait(1000) returns.
C16_ProcessingEventuallyEnds ==
    is_processing ~> ~is_processing

\* C16 witness: a job has stopped silently at its cancellation check, no
\* notification is under way, and the session has left the processing state
C16_Witness ==
    \E j \in Jobs :
        /\ hist[j].cancel_observed
        /\ threads[j].pc = "done"
        /\ hist[j].n_finished = 0
        /\ hist[j].n_error = 0
        /\ signals = << >>
        /\ ~is_processing

\* C17: in every reachable state the start button is enabled exactly when
\* is_processing is false and the cancel button exactly when it is true.
\* (Every state of the model lies between two handlers, or inside
\* cancel_analysis at wait(1000), where nothing has been changed yet.)
C17_ButtonsFollowProcessing ==
    /\ start_button = ~is_processing
    /\ cancel_button = is_processing

\* C17 witness: a second job is being processed, cancel enabled and start
\* disabled, after the first job was cancelled and the buttons were reset
C17_Witness ==
    /\ is_processing
    /\ cancel_button
    /\ ~start_button
    /\ processing_thread = 2
    /\ ~threads[1].is_running

====
